---- MODULE Spec2Model ----
(***************************************************************************)
(* Live voice-chat turn taking of the chat widget: the ChatInput           *)
(* component (src/components/ChatInput.tsx), the useSpeechRecognition hook *)
(* (src/hooks/useSpeechRecognition.ts) and sendMessage (src/lib/api.ts).   *)
(*                                                                         *)
(* The component is a React function component.  Every function it         *)
(* defines (handleLiveChatMessage, speakText, startContinuousThinking,     *)
(* the timer callback) is a closure over the state values of the render    *)
(* that created it.  The model keeps those captured values: a debounce     *)
(* timer holds the values of the render whose effect armed it, and a turn  *)
(* (one call of handleLiveChatMessage) keeps them until it ends.  State    *)
(* written with a setter is committed at the end of the synchronous        *)
(* segment that wrote it, and the effects whose dependencies changed run   *)
(* right after the commit (Render).                                        *)
(***************************************************************************)
EXTENDS Naturals, Sequences, FiniteSets, TLC

(* ------------------------------ bounds --------------------------------- *)

\* Number of calls of handleLiveChatMessage in one behaviour.
MaxTurns == 2

\* Longest accumulated finalTranscript the recognizer events may build.
MaxFinalLen == 4

\* The 1500 ms debounce delay, in clock ticks of 1500 ms.
DebounceTicks == 1

\* finalText.length > 2
MinUtteranceLen == 2

\* messageText.length < 20
GreetingMaxLen == 20

(* ------------------------------- text ---------------------------------- *)

\* String.prototype.trim on the model's alphabet (the only white space is " ").
RECURSIVE TrimLeft(_)
TrimLeft(s) ==
  IF s # <<>> /\ Head(s) = " " THEN TrimLeft(Tail(s)) ELSE s

RECURSIVE TrimRight(_)
TrimRight(s) ==
  IF s # <<>> /\ s[Len(s)] = " " THEN TrimRight(SubSeq(s, 1, Len(s) - 1)) ELSE s

Trim(s) == TrimRight(TrimLeft(s))

\* String.prototype.toLowerCase, one character.
LowerChar(c) ==
  CASE c = "H" -> "h"
    [] c = "W" -> "w"
    [] OTHER -> c

ToLowerCase(s) == [i \in 1..Len(s) |-> LowerChar(s[i])]

\* String.prototype.includes
Includes(s, p) ==
  \E i \in 1..(Len(s) + 1) :
    /\ i + Len(p) - 1 <= Len(s)
    /\ SubSeq(s, i, i + Len(p) - 1) = p

simpleGreetings ==
  { <<"h","e","l","l","o">>,
    <<"h","i">>,
    <<"h","e","y">>,
    <<"g","o","o","d"," ","m","o","r","n","i","n","g">>,
    <<"g","o","o","d"," ","a","f","t","e","r","n","o","o","n">>,
    <<"g","o","o","d"," ","e","v","e","n","i","n","g">>,
    <<"h","o","w"," ","a","r","e"," ","y","o","u">>,
    <<"w","h","a","t","'","s"," ","u","p">>,
    <<"g","r","e","e","t","i","n","g","s">>,
    <<"h","o","w","d","y">>,
    <<"y","o">>,
    <<"t","h","a","n","k","s">>,
    <<"t","h","a","n","k"," ","y","o","u">>,
    <<"s","t","o","p">>,
    <<"c","a","n","c","e","l">>,
    <<"q","u","i","t">>,
    <<"e","x","i","t">>,
    <<"b","y","e">>,
    <<"g","o","o","d","b","y","e">>,
    <<"s","e","e"," ","y","o","u"," ","l","a","t","e","r">>,
    <<"w","h","o"," ","a","r","e"," ","y","o","u">>,
    <<"w","h","a","t"," ","i","s"," ","y","o","u","r"," ","n","a","m","e">>,
    <<"t","e","l","l"," ","m","e"," ","a","b","o","u","t"," ","y","o","u","r","s","e","l","f">>,
    <<"h","e","l","p">>,
    <<"a","s","s","i","s","t">>,
    <<"s","u","p","p","o","r","t">>,
    <<"c","a","n"," ","y","o","u"," ","h","e","l","p"," ","m","e">>,
    <<"c","a","n"," ","y","o","u"," ","a","s","s","i","s","t"," ","m","e">> }

\* Fault: the comparison without toLowerCase().
isSimpleGreetingCaseSensitive(messageText) ==
  \E greeting \in simpleGreetings :
    Includes(messageText, greeting) /\ Len(messageText) < GreetingMaxLen

isSimpleGreeting(messageText) ==
  \E greeting \in simpleGreetings :
    Includes(ToLowerCase(messageText), greeting) /\ Len(messageText) < GreetingMaxLen

(* --------------------------- recognizer input -------------------------- *)

Hi   == <<"h","i">>
Hey  == <<"H","e","y">>
Why  == <<"w","h","y">>

\* One 'result' event: the text of the results marked final and of the
\* interim results, from event.resultIndex on.
ResultEvents ==
  { [final |-> <<>>, interim |-> Hi],
    [final |-> Hey,  interim |-> <<>>],
    [final |-> <<>>, interim |-> Why] }

ErrorCodes == {"aborted", "no-speech"}

\* What the webhook answers: a reply with words to speak, or a reply made
\* of URL-like tokens only (filterUrlsFromText leaves nothing of it).
Replies == {"text", "urlonly"}

(* ------------------------------- state --------------------------------- *)

Turns   == 1..MaxTurns
NoAudio == <<>>
\* The debounce timer is <<>> or one pending callback.
NoTimer == <<>>
\* messageText of a turn whose sendMessage has not been called.
NoText  == <<>>
\* An Audio element is made by speakText: one per turn and phrase.
AudioIds == Turns \X {"ack", "reply", "apology"}

VARIABLES
  isLiveChatMode,     \* ChatInput state
  isProcessingVoice,  \* ChatInput state
  isPlayingResponse,  \* ChatInput state
  currentAudio,       \* ChatInput state: response slot, an AudioId or NoAudio
  thinkingAudio,      \* ChatInput state: filler slot
  thinkingLoop,       \* playRandomThinkingSound: "off", "fetching", "overlapping"
  isListening,        \* useSpeechRecognition state
  transcript,         \* useSpeechRecognition state
  finalTranscript,    \* useSpeechRecognition state
  engine,             \* the SpeechRecognition object: "off", "starting", "on"
  audio,              \* every Audio element: "none", "loading" (play() called),
                      \*   "playing", "stopped" (paused, ended or failed)
  debounce,           \* the pending setTimeout of the debounce effect
  turn,               \* the calls of handleLiveChatMessage
  messages,           \* ChatInterface state: the conversation log
  isLoading,          \* ChatInterface state: a typed message awaits its reply
  monitor,            \* the voice-level monitor of startVoiceLevelDetection
  console,            \* the errors startListening has logged
  api,                \* one call of sendMessage: its inputs and how it settled
  sessionId,          \* ChatInterface state
  error,              \* ChatInterface state: the error banner
  message,            \* ChatInput state: the text of the message box
  selectedFiles,      \* ChatInput state: the attachments
  localStorage,       \* window.localStorage: session id -> stored text
  cookie,             \* the chatbot_session_id cookie
  now,                \* the clock, in days
  loaded              \* the last call of loadSession: its argument and result

vars == << isLiveChatMode, isProcessingVoice, isPlayingResponse, currentAudio,
           thinkingAudio, thinkingLoop, isListening, transcript, finalTranscript, engine,
           audio, debounce, turn >>


\* What the turn machine writes and never reads: the conversation log with
\* the typed chat that shares it, the voice-level monitor, and the call of
\* sendMessage taken on its own.  Spec and LiveSpec hide them; LogSpec,
\* MonitorSpec and ApiSpec track them.
observers == << messages, isLoading, monitor, console, api, sessionId, error,
                message, selectedFiles, localStorage, cookie, now, loaded >>

\* The chat interface around the log, the manual input and the session
\* store: ChatSpec and StorageSpec track them.
interface == << sessionId, error >>
manual    == << message, selectedFiles >>
storage   == << localStorage, cookie, now, loaded >>

\* The observers an action of the log, of the monitor and of sendMessage
\* leaves alone.
ExceptLog     == << monitor, console, api, interface, manual, storage >>
ExceptMonitor == << messages, isLoading, api, interface, manual, storage >>
ExceptApi     == << messages, isLoading, monitor, console, interface, manual,
                    storage >>

Unobserved == UNCHANGED observers

(* ------------------------ React render and effects --------------------- *)

\* F applied to the value of e, which is evaluated once.
Let(e, F(_)) == CHOOSE v \in {F(x) : x \in {e}} : TRUE

\* The state a render reads and an effect or handler may write.
View ==
  [ live       |-> isLiveChatMode,
    proc       |-> isProcessingVoice,
    playing    |-> isPlayingResponse,
    cur        |-> currentAudio,
    think      |-> thinkingAudio,
    loop       |-> thinkingLoop,
    listening  |-> isListening,
    transcript |-> transcript,
    finalT     |-> finalTranscript,
    audio      |-> audio,
    timer      |-> debounce ]

\* HTMLMediaElement.pause(): stops an element that is playing or still
\* loading after play(); no effect on one that has ended.
Pause(au, a) ==
  IF a # NoAudio /\ au[a] \in {"loading", "playing"}
    THEN [au EXCEPT ![a] = "stopped"]
    ELSE au

\* if (audioSlot) { audioSlot.pause(); audioSlot.currentTime = 0; }
\* for the element `a` the closure holds.
StopElement(s, a) == [s EXCEPT !.audio = Pause(s.audio, a)]

\* stopContinuousThinking of a closure that holds `think` as thinkingAudio.
stopContinuousThinking(s, think) ==
  IF think # NoAudio
    THEN [StopElement(s, think) EXCEPT !.think = NoAudio]
    ELSE s

\* Fault: resetTranscript without setFinalTranscript('').
resetTranscriptKeepsFinal(s) == [s EXCEPT !.transcript = <<>>]

\* resetTranscript
resetTranscript(s) == [s EXCEPT !.transcript = <<>>, !.finalT = <<>>]

\* The closure a render hands to the callbacks it creates.
Closure(s) ==
  [ cur |-> s.cur, think |-> s.think, proc |-> s.proc, live |-> s.live ]

\* Fault: `transcript` is missing from the dependency array, so a transcript
\* update leaves the pending timer, with its old snapshot, running.
DebounceEffectStaleDeps(o, view) ==
  Let(view, LAMBDA n :
  IF \/ o.live # n.live
     \/ o.proc # n.proc
     \/ o.playing # n.playing
    THEN IF n.live /\ n.transcript # <<>> /\ ~n.proc /\ ~n.playing
           THEN [n EXCEPT !.timer = << [ snapshot |-> n.transcript,
                                         closure  |-> Closure(n),
                                         age      |-> 0 ] >>]
           ELSE [n EXCEPT !.timer = NoTimer]
    ELSE n)

\* Fault: the effect returns no cleanup, so a timer armed by an earlier
\* run is not cleared when the guard has become false.
DebounceEffectNoCleanup(o, view) ==
  Let(view, LAMBDA n :
  IF \/ o.transcript # n.transcript
     \/ o.live # n.live
     \/ o.proc # n.proc
     \/ o.playing # n.playing
    THEN IF n.live /\ n.transcript # <<>> /\ ~n.proc /\ ~n.playing
           THEN [n EXCEPT !.timer = << [ snapshot |-> n.transcript,
                                         closure  |-> Closure(n),
                                         age      |-> 0 ] >>]
           ELSE n
    ELSE n)

\* Fault: no clearTimeout: the timer of the earlier run stays pending next
\* to the one the effect arms.
DebounceEffectStacksTimers(o, view) ==
  Let(view, LAMBDA n :
  IF \/ o.transcript # n.transcript
     \/ o.live # n.live
     \/ o.proc # n.proc
     \/ o.playing # n.playing
    THEN IF n.live /\ n.transcript # <<>> /\ ~n.proc /\ ~n.playing
           THEN [n EXCEPT !.timer = Append(n.timer,
                                           [ snapshot |-> n.transcript,
                                             closure  |-> Closure(n),
                                             age      |-> 0 ])]
           ELSE n
    ELSE n)

\* The debounce effect of the render of n, o being the previous render.
\* When a dependency changed the cleanup clears the timer of the previous
\* run and the effect body runs again.
DebounceEffect(o, view) ==
  Let(view, LAMBDA n :
  IF \/ o.transcript # n.transcript
     \/ o.live # n.live
     \/ o.proc # n.proc
     \/ o.playing # n.playing
    THEN IF n.live /\ n.transcript # <<>> /\ ~n.proc /\ ~n.playing
           THEN [n EXCEPT !.timer = << [ snapshot |-> n.transcript,
                                         closure  |-> Closure(n),
                                         age      |-> 0 ] >>]
           ELSE [n EXCEPT !.timer = NoTimer]
    ELSE n)

\* The barge-in effect of the render of n, o being the previous render.
BargeInEffect(o, n) ==
  IF /\ \/ o.live # n.live
        \/ o.listening # n.listening
        \/ o.playing # n.playing
        \/ o.cur # n.cur
     /\ n.live /\ n.listening /\ n.playing
    THEN LET s1 == IF n.cur # NoAudio
                     THEN [StopElement(n, n.cur) EXCEPT !.cur = NoAudio]
                     ELSE n
             s2 == stopContinuousThinking(s1, n.think)
             s3 == [s2 EXCEPT !.playing = FALSE, !.proc = FALSE]
         IN  resetTranscript(s3)
    ELSE n

\* Commit n after the render of o: run the effects, and render again while
\* an effect has written state.
RECURSIVE Render(_, _)
Render(o, n) ==
  Let(DebounceEffect(o, n), LAMBDA rendered :
    Let(BargeInEffect(o, rendered), LAMBDA written :
      IF written = rendered THEN rendered ELSE Render(rendered, written)))

\* The elements something still refers to: the response slot, the closure
\* of the pending timer and the closures of the turns tr that have not
\* returned.
Referenced(f, tr) ==
  {f.cur} \cup {f.timer[i].closure.cur : i \in 1..Len(f.timer)}
          \cup {tr[t].closure.cur : t \in Turns}

\* An element that has stopped and that nothing refers to is garbage: it
\* is never played again.
Collect(au, refs) ==
  [a \in AudioIds |-> IF au[a] = "stopped" /\ a \notin refs THEN "none" ELSE au[a]]

\* The next state of the component is the committed view f, and tr are
\* the turns.
Commit(view, turns) ==
  \E f \in {view}, tr \in {turns} :
    /\ turn' = tr
    /\ isLiveChatMode'    = f.live
    /\ isProcessingVoice' = f.proc
    /\ isPlayingResponse' = f.playing
    /\ currentAudio'      = f.cur
    /\ thinkingAudio'     = f.think
    /\ thinkingLoop'      = f.loop
    /\ isListening'       = f.listening
    /\ transcript'        = f.transcript
    /\ finalTranscript'   = f.finalT
    /\ \E refs \in {Referenced(f, tr)} : audio' = Collect(f.audio, refs)
    /\ debounce'          = f.timer

(* ------------------------------ the turn ------------------------------- *)

\* A call of handleLiveChatMessage: where it is suspended, its argument,
\* the closure it runs in, the chatInput it has given to sendMessage and
\* the reply it got.
NoTurn ==
  [ pc        |-> "none",
    text      |-> NoText,
    closure   |-> [cur |-> NoAudio, think |-> NoAudio, proc |-> FALSE, live |-> FALSE],
    chatInput |-> NoText,
    reply     |-> "none" ]

\* Fault: finalText.length >= 2
passesNoiseFloorOffByOne(finalText) ==
  finalText # <<>> /\ Len(finalText) >= MinUtteranceLen

\* if (finalText && finalText.length > 2)
passesNoiseFloor(finalText) ==
  finalText # <<>> /\ Len(finalText) > MinUtteranceLen

\* speakText up to its fetch: the guard on empty text is the caller's case
\* split; the closure's currentAudio is paused, the slot is left alone.
speakTextBegin(s, c) == StopElement(s, c.cur)

\* A call of playRandomThinkingSound that passes its guard requests a
\* filler and begins a chain of its own (fetch, play, reschedule); a chain
\* begun while another one runs leaves two of them running side by side.
StartLoop(loop) == IF loop = "off" THEN "fetching" ELSE "overlapping"

\* Fault: playRandomThinkingSound without the test of the closure's flags.
startContinuousThinkingUnguarded(s, c) == [s EXCEPT !.loop = StartLoop(s.loop)]

\* Fault: playRandomThinkingSound tests isLiveChatMode only.
startContinuousThinkingModeOnly(s, c) ==
  IF ~c.live THEN s ELSE [s EXCEPT !.loop = StartLoop(s.loop)]

\* startContinuousThinking: playRandomThinkingSound returns at once unless
\* the closure's isProcessingVoice and isLiveChatMode are both true.  The
\* closure is the one of the render that armed the debounce timer, whose
\* guard requires isProcessingVoice to be false, so no filler is requested.
startContinuousThinking(s, c) ==
  IF ~c.proc \/ ~c.live THEN s ELSE [s EXCEPT !.loop = StartLoop(s.loop)]

\* Fault: the finally block without setIsPlayingResponse(false).
finallyBodyKeepsPlaying(s, c) ==
  LET s1 == stopContinuousThinking(s, c.think)
  IN  [s1 EXCEPT !.proc = FALSE]

\* finally { stopContinuousThinking(); setIsProcessingVoice(false);
\* setIsPlayingResponse(false); }
finallyBody(s, c) ==
  LET s1 == stopContinuousThinking(s, c.think)
  IN  [s1 EXCEPT !.proc = FALSE, !.playing = FALSE]

\* The finally block of a call that returns and, back in the timer
\* callback, resetTranscript(); setLiveChatTranscript('').
finallyBlock(s, c) == resetTranscript(finallyBody(s, c))

\* Fault: a catch block that stops the filler loop and rethrows.
catchBlockRethrows(s, c) ==
  [ view |-> finallyBody(stopContinuousThinking(s, c.think), c),
    pc   |-> "threw" ]

\* catch (error) { stopContinuousThinking(); await speakText(apology) }
catchBlock(s, c) ==
  [ view |-> speakTextBegin(stopContinuousThinking(s, c.think), c),
    pc   |-> "apologyTTS" ]

\* handleLiveChatMessage from its first line to its first await, called by
\* the timer callback with the closure c.
handleLiveChatMessage(s, c, messageText) ==
  LET s1 == IF c.cur # NoAudio
              THEN [StopElement(s, c.cur) EXCEPT !.cur = NoAudio]
              ELSE s
      s2 == stopContinuousThinking(s1, c.think)
      s3 == [s2 EXCEPT !.playing = FALSE]
  IN  IF Trim(messageText) = <<>> \/ c.proc
        THEN [ view |-> resetTranscript(s3), pc |-> "none" ]
        ELSE LET s4 == [s3 EXCEPT !.proc = TRUE]
             IN  IF ~isSimpleGreeting(messageText)
                   THEN [ view |-> speakTextBegin(s4, c), pc |-> "ackTTS" ]
                   ELSE [ view |-> s4, pc |-> "backend" ]

\* The phrase a suspended speakText is speaking.
Phrase(pc) ==
  CASE pc \in {"ackTTS", "ackPlay"}         -> "ack"
    [] pc \in {"replyTTS", "replyPlay"}     -> "reply"
    [] pc \in {"apologyTTS", "apologyPlay"} -> "apology"

\* How speakText settles when its fetch or its play() has failed: the
\* try/catch around its body logs the error and the call returns.
speakTextFailure == "returned"

\* What follows a speakText that has settled ("returned" or "threw").
\* After the acknowledgment phrase (whose rejection is caught with .catch)
\* the filler loop is started and sendMessage is called.  After the reply a
\* return leads to the finally block and a throw to the catch block.  After
\* the apology the finally block runs, and a throw leaves the call.
afterSpeakText(s, t, settled) ==
  LET c == turn[t].closure
  IN  CASE Phrase(turn[t].pc) = "ack" ->
             [ view |-> startContinuousThinking(s, c), pc |-> "backend" ]
        [] Phrase(turn[t].pc) = "reply" ->
             IF settled = "returned"
               THEN [ view |-> finallyBlock(s, c), pc |-> "done" ]
               ELSE catchBlock(s, c)
        [] Phrase(turn[t].pc) = "apology" ->
             IF settled = "returned"
               THEN [ view |-> finallyBlock(s, c), pc |-> "done" ]
               ELSE [ view |-> finallyBody(s, c), pc |-> "threw" ]

\* The turn t moves to pc; entering "backend" is the call of sendMessage.
\* A turn that has returned ("done") or thrown ("threw") keeps nothing.
TurnTo(t, pc) ==
  IF pc \in {"done", "threw"}
    THEN [turn EXCEPT ![t] = [NoTurn EXCEPT !.pc = pc]]
    ELSE [turn EXCEPT ![t].pc = pc,
                      ![t].chatInput = IF pc = "backend" THEN turn[t].text ELSE @,
                      ![t].reply = "none"]


(* ---------------------------- session store --------------------------- *)

\* const EXPIRY_DAYS = 30
EXPIRY_DAYS == 30

\* Number of ids generateUUID makes for handleNewChat in one behaviour.
MaxChats == 1

\* '' and undefined: no session id.
NoSession == <<>>

\* The id getOrCreateSessionId makes on the first visit.
FirstSessionId == << "session", 0 >>

\* generateUUID(): the n-th id it makes is unlike every other.
generateUUID(n) == << "uuid", n >>

\* const [sessionId] = useState(() => generateUUID()) of ChatInput, the
\* first id generateUUID makes; the sessionId of its sendMessage calls.
ChatInputSessionId == generateUUID(0)

\* The ids of the chat interface: the one of the cookie and the ones of
\* handleNewChat.
SessionIds == {FirstSessionId} \cup {generateUUID(n) : n \in 1..MaxChats}

\* The days the clock shows.
Days == {0, 1, EXPIRY_DAYS, EXPIRY_DAYS + 1}

\* What localStorage holds under the key of a session: nothing, the empty
\* text, a text JSON.parse rejects, or the text of a session.
Absent    == [ kind |-> "absent",  messages |-> <<>>, lastActivity |-> 0 ]
EmptyText == [ kind |-> "empty",   messages |-> <<>>, lastActivity |-> 0 ]
Garbage   == [ kind |-> "garbage", messages |-> <<>>, lastActivity |-> 0 ]

\* JSON.stringify(session) and JSON.parse of it: the text holds the
\* messages and the ISO string of lastActivity.
Stringify(session) ==
  [ kind |-> "json", messages |-> session.messages,
    lastActivity |-> session.lastActivity ]

\* loadSession returns null.
Null == [ null |-> TRUE, sessionId |-> NoSession, messages |-> <<>>,
          lastActivity |-> 0 ]

\* Fault: clearSession removes the cookie whatever its argument.
clearSessionDropsCookie(store, ck, id) ==
  LET currentSessionId == IF id # NoSession THEN id ELSE ck
  IN  [ localStorage |-> IF currentSessionId # NoSession
                           THEN [store EXCEPT ![currentSessionId] = Absent]
                           ELSE store,
        cookie       |-> NoSession ]

\* clearSession(sessionId?)
clearSession(store, ck, id) ==
  LET currentSessionId == IF id # NoSession THEN id ELSE ck
  IN  [ localStorage |-> IF currentSessionId # NoSession
                           THEN [store EXCEPT ![currentSessionId] = Absent]
                           ELSE store,
        cookie       |-> IF id = NoSession THEN NoSession ELSE ck ]

\* saveSession(sessionId, messages) at time `clock`.
saveSession(store, ck, clock, id, msgs) ==
  LET session == [ sessionId |-> id, messages |-> msgs, lastActivity |-> clock ]
  IN  [ localStorage |-> [store EXCEPT ![id] = Stringify(session)],
        cookie       |-> id ]

\* Fault: a session expires on its 30th day, not after it.
loadSessionDayEarly(store, ck, clock, id) ==
  LET currentSessionId == IF id # NoSession THEN id ELSE ck
      kept == [ session |-> Null, localStorage |-> store, cookie |-> ck ]
  IN  IF currentSessionId = NoSession THEN kept
      ELSE LET stored == store[currentSessionId]
           IN  IF stored.kind \in {"absent", "empty"} THEN kept
               ELSE IF stored.kind = "garbage"
                 THEN IF id # NoSession
                        THEN LET c == clearSession(store, ck, id)
                             IN  [ session |-> Null,
                                   localStorage |-> c.localStorage,
                                   cookie |-> c.cookie ]
                        ELSE kept
                 ELSE LET daysDiff == clock - stored.lastActivity
                      IN  IF daysDiff >= EXPIRY_DAYS
                            THEN LET c == clearSession(store, ck, currentSessionId)
                                 IN  [ session |-> Null,
                                       localStorage |-> c.localStorage,
                                       cookie |-> c.cookie ]
                            ELSE [ session |->
                                     [ null |-> FALSE,
                                       sessionId |-> currentSessionId,
                                       messages |-> stored.messages,
                                       lastActivity |-> stored.lastActivity ],
                                   localStorage |-> store,
                                   cookie |-> ck ]

\* loadSession(sessionId?) at time `clock`: what it returns and what it
\* leaves in the store.  getItem gives null for a missing key, and null
\* and '' are both falsy; JSON.parse throws on a text that is no JSON.
loadSession(store, ck, clock, id) ==
  LET currentSessionId == IF id # NoSession THEN id ELSE ck
      kept == [ session |-> Null, localStorage |-> store, cookie |-> ck ]
  IN  IF currentSessionId = NoSession THEN kept
      ELSE LET stored == store[currentSessionId]
           IN  IF stored.kind \in {"absent", "empty"} THEN kept
               ELSE IF stored.kind = "garbage"
                 THEN IF id # NoSession
                        THEN LET c == clearSession(store, ck, id)
                             IN  [ session |-> Null,
                                   localStorage |-> c.localStorage,
                                   cookie |-> c.cookie ]
                        ELSE kept
                 ELSE LET daysDiff == clock - stored.lastActivity
                      IN  IF daysDiff > EXPIRY_DAYS
                            THEN LET c == clearSession(store, ck, currentSessionId)
                                 IN  [ session |-> Null,
                                       localStorage |-> c.localStorage,
                                       cookie |-> c.cookie ]
                            ELSE [ session |->
                                     [ null |-> FALSE,
                                       sessionId |-> currentSessionId,
                                       messages |-> stored.messages,
                                       lastActivity |-> stored.lastActivity ],
                                   localStorage |-> store,
                                   cookie |-> ck ]

\* No error is shown.
NoError == "null"
SessionNotInitialized == "Session not initialized"
FailedToSend == "Failed to send message. Please try again."

(* ------------------------------ actions -------------------------------- *)

\* No voice-level monitor was started.
NoMonitor ==
  [ requests     |-> 0,       \* getUserMedia calls that have not settled
    streams      |-> 0,       \* microphone streams that are open
    contexts     |-> 0,       \* AudioContexts that are open
    audioContext |-> FALSE,   \* ChatInput state: holds a context
    loops        |-> 0,       \* updateVoiceLevel loops with a frame requested
    frameRef     |-> FALSE ]  \* animationFrameRef.current is set

\* No call of sendMessage is looked at.
NoCall == [ settled |-> "idle" ]

Mounted ==
  /\ isLiveChatMode = FALSE
  /\ isProcessingVoice = FALSE
  /\ isPlayingResponse = FALSE
  /\ currentAudio = NoAudio
  /\ thinkingAudio = NoAudio
  /\ thinkingLoop = "off"
  /\ isListening = FALSE
  /\ transcript = <<>>
  /\ finalTranscript = <<>>
  /\ engine = "off"
  /\ audio = [a \in AudioIds |-> "none"]
  /\ debounce = NoTimer
  /\ turn = [t \in Turns |-> NoTurn]
  /\ messages = <<>>
  /\ isLoading = FALSE
  /\ monitor = NoMonitor
  /\ console = {}
  /\ sessionId = FirstSessionId
  /\ error = NoError
  /\ message = <<>>
  /\ selectedFiles = <<>>

\* The store of a first visit, after the mount effect of the chat
\* interface: getOrCreateSessionId has set the cookie and loadSession has
\* found nothing.
FirstVisit ==
  /\ localStorage = [id \in SessionIds |-> Absent]
  /\ cookie = FirstSessionId
  /\ now = 0
  /\ loaded = [ sessionId |-> FirstSessionId, session |-> Null ]

Init == Mounted /\ api = NoCall /\ FirstVisit

\* SpeechRecognition.start(): an engine that is not stopped rejects it with
\* an InvalidStateError.
EngineRejectsStart(eng) == eng # "off"

\* console.error('Failed to start recognition:', error)
FailedToStart == "Failed to start recognition"

\* Fault: startListening without try/catch around recognition.start().
startListeningNoCatch(listening, eng) ==
  IF ~listening
    THEN IF EngineRejectsStart(eng)
           THEN [ engine |-> eng, outcome |-> "threw", logged |-> FALSE ]
           ELSE [ engine |-> "starting", outcome |-> "returned", logged |-> FALSE ]
    ELSE [ engine |-> eng, outcome |-> "returned", logged |-> FALSE ]

\* startListening of the current render: what becomes of the engine, how
\* the call ends and whether it has logged a failed start.
startListening(listening, eng) ==
  IF ~listening
    THEN IF EngineRejectsStart(eng)
           THEN [ engine |-> eng, outcome |-> "returned", logged |-> TRUE ]
           ELSE [ engine |-> "starting", outcome |-> "returned", logged |-> FALSE ]
    ELSE [ engine |-> eng, outcome |-> "returned", logged |-> FALSE ]

\* stopListening of the current render.
stopListening(s) ==
  IF s.listening THEN [s EXCEPT !.listening = FALSE] ELSE s

\* Fault: the exit branch without setIsProcessingVoice(false) and
\* setIsPlayingResponse(false).
exitLiveChatKeepsFlags(s) ==
  LET s1 == IF s.cur # NoAudio
              THEN [StopElement(s, s.cur) EXCEPT !.cur = NoAudio]
              ELSE s
      s2 == IF s.think # NoAudio
              THEN [StopElement(s1, s.think) EXCEPT !.think = NoAudio]
              ELSE s1
      s3 == [s2 EXCEPT !.live = FALSE]
      s4 == stopListening(s3)
      s5 == stopContinuousThinking(s4, s.think)
  IN  resetTranscript(s5)

\* The exit branch of handleLiveChatToggle.
exitLiveChat(s) ==
  LET s1 == IF s.cur # NoAudio
              THEN [StopElement(s, s.cur) EXCEPT !.cur = NoAudio]
              ELSE s
      s2 == IF s.think # NoAudio
              THEN [StopElement(s1, s.think) EXCEPT !.think = NoAudio]
              ELSE s1
      s3 == [s2 EXCEPT !.live = FALSE]
      s4 == stopListening(s3)
      s5 == stopContinuousThinking(s4, s.think)
      s6 == resetTranscript(s5)
  IN  [s6 EXCEPT !.proc = FALSE, !.playing = FALSE]

\* The enter branch of handleLiveChatToggle (speech recognition supported).
enterLiveChat(s) == [s EXCEPT !.live = TRUE]

\* The live-chat button: the one of the text input is disabled while a
\* typed message is loading, the ones of the live-chat screen never are.
handleLiveChatToggle ==
  /\ isLiveChatMode \/ ~isLoading
  /\ IF isLiveChatMode
       THEN /\ Commit(Render(View, exitLiveChat(View)), turn)
            \* recognitionRef.current.stop(), called when isListening
            /\ engine' = IF isListening THEN "off" ELSE engine
       ELSE /\ Commit(Render(View, enterLiveChat(View)), turn)
            /\ engine' = startListening(isListening, engine).engine
  /\ UNCHANGED turn

\* The recognizer's 'start' event.
EngineStart ==
  /\ engine = "starting"
  /\ engine' = "on"
  /\ Commit(Render(View, [View EXCEPT !.listening = TRUE]), turn)

\* finalTranscript as the 'result' listener reads it: the listener is
\* created by the effect of the first render and never again.
listenerFinalTranscript == <<>>

\* The 'result' listener.
onResult(s, ev) ==
  LET newFinalTranscript == ev.final
      interimTranscript  == ev.interim
      s1 == IF newFinalTranscript # <<>>
              THEN [s EXCEPT !.finalT = s.finalT \o newFinalTranscript \o <<" ">>]
              ELSE s
      currentFinal == listenerFinalTranscript \o newFinalTranscript \o <<" ">>
  IN  [s1 EXCEPT !.transcript = currentFinal \o interimTranscript]

\* The recognizer's 'result' event.
EngineResult(ev) ==
  /\ engine = "on"
  /\ ev.final # <<>> => Len(finalTranscript) + Len(ev.final) + 1 <= MaxFinalLen
  /\ Commit(Render(View, onResult(View, ev)), turn)
  /\ UNCHANGED engine

\* The recognizer ends on its own; the 'end' listener does nothing.
EngineEnd ==
  /\ engine = "on"
  /\ engine' = "off"
  /\ UNCHANGED << isLiveChatMode, isProcessingVoice, isPlayingResponse,
                  currentAudio, thinkingAudio, thinkingLoop, isListening,
                  transcript, finalTranscript, audio, debounce, turn >>

\* Fault: every error code is treated as a stop.
onErrorAlwaysStops(s, code) == [s EXCEPT !.listening = FALSE]

\* The 'error' listener.
onError(s, code) ==
  IF code = "aborted" THEN [s EXCEPT !.listening = FALSE] ELSE s

\* The recognizer's 'error' event; recognition has stopped when it is sent.
EngineError(code) ==
  /\ engine \in {"starting", "on"}
  /\ engine' = "off"
  /\ Commit(Render(View, onError(View, code)), turn)

\* Time passes while the debounce timer is pending.
Tick ==
  /\ debounce # NoTimer
  /\ debounce[1].age < DebounceTicks
  /\ debounce' = << [debounce[1] EXCEPT !.age = @ + 1] >>
  /\ UNCHANGED << isLiveChatMode, isProcessingVoice, isPlayingResponse,
                  currentAudio, thinkingAudio, thinkingLoop, isListening,
                  transcript, finalTranscript, engine, audio, turn >>

\* The turn a new call of handleLiveChatMessage takes.
IsFree(t) == turn[t].pc = "none"

FreeTurn == CHOOSE t \in Turns : IsFree(t) /\ \A u \in 1..(t - 1) : ~IsFree(u)

\* The debounce timer's callback.
DebounceFire ==
  /\ debounce # NoTimer
  /\ debounce[1].age >= DebounceTicks
  /\ LET tm        == debounce[1]
         finalText == Trim(tm.snapshot)
         s0        == [View EXCEPT !.timer = NoTimer]
     IN  IF passesNoiseFloor(finalText)
           THEN /\ \E t \in Turns : IsFree(t)
                /\ LET r == handleLiveChatMessage(s0, tm.closure, finalText)
                   IN  Commit(Render(View, r.view),
                              IF r.pc = "none"
                                THEN turn
                                ELSE [turn EXCEPT ![FreeTurn] =
                                       [ pc        |-> r.pc,
                                         text      |-> finalText,
                                         closure   |-> tm.closure,
                                         chatInput |-> IF r.pc = "backend"
                                                         THEN finalText ELSE NoText,
                                         reply     |-> "none" ]])
           ELSE Commit(Render(View, s0), turn)
  /\ UNCHANGED engine

\* The text-to-speech fetch of turn t's speakText settles.
SynthDone(t, ok) ==
  /\ turn[t].pc \in {"ackTTS", "replyTTS", "apologyTTS"}
  /\ IF ok
       THEN \* new Audio(audioUrl); setCurrentAudio(audio); audio.play()
            LET a == << t, Phrase(turn[t].pc) >>
                s == [View EXCEPT !.audio[a] = "loading", !.cur = a]
            IN  Commit(Render(View, s),
                       TurnTo(t, CASE turn[t].pc = "ackTTS" -> "ackPlay"
                                   [] turn[t].pc = "replyTTS" -> "replyPlay"
                                   [] turn[t].pc = "apologyTTS" -> "apologyPlay"))
       ELSE \* the failure is caught and logged inside speakText
            LET r == afterSpeakText(View, t, speakTextFailure)
            IN  /\ Commit(Render(View, r.view), TurnTo(t, r.pc))
  /\ UNCHANGED engine

\* The promise of audio.play() settles for turn t's speakText.
PlaySettled(t, ok) ==
  /\ turn[t].pc \in {"ackPlay", "replyPlay", "apologyPlay"}
  /\ LET a == << t, Phrase(turn[t].pc) >>
     IN  /\ ok => audio[a] = "loading"
         /\ LET s == IF audio[a] = "loading"
                       THEN [View EXCEPT !.audio[a] = IF ok THEN "playing" ELSE "stopped"]
                       ELSE View
                r == afterSpeakText(s, t, IF ok THEN "returned" ELSE speakTextFailure)
            IN  /\ Commit(Render(View, r.view), TurnTo(t, r.pc))
  /\ UNCHANGED engine

\* sendMessage of turn t settles: a reply, or a thrown failure.
BackendDone(t, out) ==
  /\ turn[t].pc = "backend"
  /\ IF out \in Replies
       THEN \* stopContinuousThinking(); onAddMessage x 2; await the 500 ms
            Commit(Render(View, stopContinuousThinking(View, turn[t].closure.think)),
                   [turn EXCEPT ![t].pc = "delay", ![t].reply = out])
       ELSE LET r == catchBlock(View, turn[t].closure)
            IN  /\ Commit(Render(View, r.view), TurnTo(t, r.pc))
  /\ UNCHANGED engine

\* Fault: speakText without its test of empty text.
DelayDoneSpeaksEmpty(t) ==
  /\ turn[t].pc = "delay"
  /\ LET c  == turn[t].closure
         s1 == [View EXCEPT !.playing = TRUE]
     IN  Commit(Render(View, speakTextBegin(s1, c)), TurnTo(t, "replyTTS"))
  /\ UNCHANGED engine

\* The 500 ms before the reply is spoken have passed.
DelayDone(t) ==
  /\ turn[t].pc = "delay"
  /\ LET c  == turn[t].closure
         s1 == [View EXCEPT !.playing = TRUE]
     IN  IF turn[t].reply = "urlonly"
           THEN \* speakText returns on empty text; the finally block follows
                Commit(Render(View, finallyBlock(s1, c)), TurnTo(t, "done"))
           ELSE Commit(Render(View, speakTextBegin(s1, c)), TurnTo(t, "replyTTS"))
  /\ UNCHANGED engine

\* audio.onended and audio.onerror of speakText have the same body.
onAudioOver(s) == [s EXCEPT !.cur = NoAudio, !.playing = FALSE]

\* The element a plays to its end.
AudioEnded(a) ==
  /\ audio[a] = "playing"
  /\ Commit(Render(View, onAudioOver([View EXCEPT !.audio[a] = "stopped"])), turn)
  /\ UNCHANGED engine

\* The element a fails while playing.
AudioError(a) ==
  /\ audio[a] = "playing"
  /\ Commit(Render(View, onAudioOver([View EXCEPT !.audio[a] = "stopped"])), turn)
  /\ UNCHANGED engine

Next ==
  \/ handleLiveChatToggle /\ Unobserved
  \/ EngineStart /\ Unobserved
  \/ \E ev \in ResultEvents : EngineResult(ev) /\ Unobserved
  \/ EngineEnd /\ Unobserved
  \/ \E code \in ErrorCodes : EngineError(code) /\ Unobserved
  \/ Tick /\ Unobserved
  \/ DebounceFire /\ Unobserved
  \/ \E t \in Turns, ok \in BOOLEAN : SynthDone(t, ok) /\ Unobserved
  \/ \E t \in Turns, ok \in BOOLEAN : PlaySettled(t, ok) /\ Unobserved
  \/ \E t \in Turns, out \in Replies \cup {"fail"} : BackendDone(t, out) /\ Unobserved
  \/ \E t \in Turns : DelayDone(t) /\ Unobserved
  \/ \E a \in AudioIds : AudioEnded(a) /\ Unobserved
  \/ \E a \in AudioIds : AudioError(a) /\ Unobserved

Spec == Init /\ [][Next]_vars


\* Every network call and every play() of a turn settles.
TurnStep(t) ==
  \/ \E ok \in BOOLEAN : SynthDone(t, ok)
  \/ \E ok \in BOOLEAN : PlaySettled(t, ok)
  \/ \E out \in Replies \cup {"fail"} : BackendDone(t, out)
  \/ DelayDone(t)

\* The turn machine with the recognizer events a turn can observe: the
\* interim results.  The finalized results and the recognizer's errors are
\* left to Spec; a turn reads neither finalTranscript nor the engine.
InterimEvents == {ev \in ResultEvents : ev.final = <<>>}

LiveNext ==
  \/ handleLiveChatToggle /\ Unobserved
  \/ EngineStart /\ Unobserved
  \/ \E ev \in InterimEvents : EngineResult(ev) /\ Unobserved
  \/ Tick /\ Unobserved
  \/ DebounceFire /\ Unobserved
  \/ \E t \in Turns : TurnStep(t) /\ Unobserved
  \/ \E a \in AudioIds : AudioEnded(a) /\ Unobserved
  \/ \E a \in AudioIds : AudioError(a) /\ Unobserved

\* Spec with what the browser guarantees: a recognizer that was started
\* sends its 'start' event, and every fetch, timer and play() promise of a
\* turn settles.  Nothing is assumed of the user or of later recognizer
\* events.
FairSpec ==
  /\ Spec
  /\ WF_vars(EngineStart)
  /\ \A t \in Turns : WF_vars(TurnStep(t))

(* --------------------------- conversation log -------------------------- *)

\* The text of a typed message, and the number of typed messages.
Typed    == <<"o","k">>
MaxTyped == 1

\* The call that is not a live-chat turn: handleSendMessage.
TypedCall == 0

\* setMessages((prev) => [...prev, newMessage]); `call` stands for the
\* generated id of the message and tells which call has made it.
handleAddMessage(prev, messageText, isUser, call) ==
  Append(prev, [ text |-> messageText, isUser |-> isUser, call |-> call ])

\* The places of the log that hold the messages of call c.
LogOf(c) == {i \in 1..Len(messages) : messages[i].call = c}

\* Fault: the reply of a failed request is logged like any other.
LogBackendDoneLogsFailure(t, out) ==
  /\ BackendDone(t, out)
  /\ messages' = handleAddMessage(handleAddMessage(messages, turn[t].text, TRUE, t),
                                  out, FALSE, t)
  /\ UNCHANGED isLoading
  /\ UNCHANGED ExceptLog

\* sendMessage settles for turn t, with the log: after a reply,
\* onAddMessage(messageText, true); onAddMessage(response, false).
LogBackendDone(t, out) ==
  /\ BackendDone(t, out)
  /\ messages' = IF out \in Replies
                   THEN handleAddMessage(handleAddMessage(messages, turn[t].text, TRUE, t),
                                         out, FALSE, t)
                   ELSE messages
  /\ UNCHANGED isLoading
  /\ UNCHANGED ExceptLog

\* handleSendMessage up to its await: the send button and the suggestions
\* are disabled in live-chat mode and while a typed message is loading.
TypedSend ==
  /\ ~isLiveChatMode /\ ~isLoading
  /\ Cardinality({i \in 1..Len(messages) :
                    messages[i].call = TypedCall /\ messages[i].isUser}) < MaxTyped
  /\ messages' = handleAddMessage(messages, Typed, TRUE, TypedCall)
  /\ isLoading' = TRUE
  /\ UNCHANGED ExceptLog
  /\ UNCHANGED vars

\* sendMessage settles for handleSendMessage.
TypedSettled(out) ==
  /\ isLoading
  /\ messages' = IF out \in Replies
                   THEN handleAddMessage(messages, out, FALSE, TypedCall)
                   ELSE messages
  /\ isLoading' = FALSE
  /\ UNCHANGED ExceptLog
  /\ UNCHANGED vars

\* The results that become an utterance: the others change no log.
UtteranceEvents == {ev \in InterimEvents : passesNoiseFloor(Trim(ev.interim))}

LogNext ==
  \/ handleLiveChatToggle /\ Unobserved
  \/ EngineStart /\ Unobserved
  \/ \E ev \in UtteranceEvents : EngineResult(ev) /\ Unobserved
  \/ Tick /\ Unobserved
  \/ DebounceFire /\ Unobserved
  \/ \E t \in Turns, ok \in BOOLEAN : SynthDone(t, ok) /\ Unobserved
  \/ \E t \in Turns, ok \in BOOLEAN : PlaySettled(t, ok) /\ Unobserved
  \/ \E t \in Turns, out \in Replies \cup {"fail"} : LogBackendDone(t, out)
  \/ \E t \in Turns : DelayDone(t) /\ Unobserved
  \/ \E a \in AudioIds : AudioEnded(a) /\ Unobserved
  \/ \E a \in AudioIds : AudioError(a) /\ Unobserved
  \/ TypedSend
  \/ \E out \in {"text", "fail"} : TypedSettled(out)

\* The live-chat turns and the typed chat, with the log they share.
LogSpec == Init /\ [][LogNext]_<< vars, observers >>

(* -------------------------- voice-level monitor ------------------------ *)

\* The getUserMedia calls of the monitor, pending or granted.
MaxMic == 3

\* startVoiceLevelDetection up to its await: getUserMedia is called.
startVoiceLevelDetection(m) == [m EXCEPT !.requests = @ + 1]

\* stopVoiceLevelDetection: the frame in animationFrameRef is cancelled,
\* which ends the loop that requested it; the context in the audioContext
\* state of the render is closed.  The stream is not touched.
stopVoiceLevelDetection(m) ==
  LET m1 == IF m.frameRef
              THEN [m EXCEPT !.loops = @ - 1, !.frameRef = FALSE]
              ELSE m
  IN  IF m1.audioContext
        THEN [m1 EXCEPT !.contexts = @ - 1, !.audioContext = FALSE]
        ELSE m1

\* The live-chat button, with the monitor.
MonitoredToggle ==
  /\ ~isLiveChatMode => monitor.requests + monitor.streams < MaxMic
  /\ handleLiveChatToggle
  /\ monitor' = IF isLiveChatMode
                  THEN stopVoiceLevelDetection(monitor)
                  ELSE startVoiceLevelDetection(monitor)
  /\ console' = IF ~isLiveChatMode /\ startListening(isListening, engine).logged
                  THEN console \cup {FailedToStart}
                  ELSE console
  /\ UNCHANGED ExceptMonitor

\* getUserMedia resolves: startVoiceLevelDetection goes on, whatever the
\* mode is by now: a context is made and kept in the audioContext state,
\* and updateVoiceLevel runs and requests its first frame.
MicGranted ==
  /\ monitor.requests > 0
  /\ monitor' = [monitor EXCEPT !.requests = @ - 1,
                                !.streams = @ + 1,
                                !.contexts = @ + 1,
                                !.audioContext = TRUE,
                                !.loops = @ + 1,
                                !.frameRef = TRUE]
  /\ UNCHANGED console
  /\ UNCHANGED ExceptMonitor
  /\ UNCHANGED vars

\* getUserMedia rejects: the catch block logs the error.
MicDenied ==
  /\ monitor.requests > 0
  /\ monitor' = [monitor EXCEPT !.requests = @ - 1]
  /\ UNCHANGED console
  /\ UNCHANGED ExceptMonitor
  /\ UNCHANGED vars

\* An animation frame of a running loop: updateVoiceLevel samples the
\* analyser and requests the next frame.
Frame ==
  /\ monitor.loops > 0
  /\ monitor' = [monitor EXCEPT !.frameRef = TRUE]
  /\ UNCHANGED console
  /\ UNCHANGED ExceptMonitor
  /\ UNCHANGED vars

MonitorNext ==
  \/ MonitoredToggle
  \/ MicGranted
  \/ MicDenied
  \/ Frame
  \/ EngineStart /\ Unobserved
  \/ EngineEnd /\ Unobserved
  \/ \E code \in ErrorCodes : EngineError(code) /\ Unobserved

\* The live-chat button with the two users of the microphone it starts and
\* stops: the recognizer and the voice-level monitor.
MonitorSpec == Init /\ [][MonitorNext]_<< vars, observers >>

(* ------------------------------ sendMessage ---------------------------- *)

\* A JSON value as JavaScript sees it: its type and its text.
Undefined == [ type |-> "undefined", text |-> <<>> ]
Reply     == [ type |-> "string",    text |-> <<"o","k">> ]

\* What the `output` property of a parsed object can be.
OutputValues ==
  { Undefined,
    [ type |-> "null",    text |-> <<>> ],
    [ type |-> "boolean", text |-> <<"false">> ],
    [ type |-> "number",  text |-> <<"0">> ],
    [ type |-> "number",  text |-> <<"7">> ],
    [ type |-> "string",  text |-> <<>> ],
    [ type |-> "string",  text |-> <<" ">> ],
    [ type |-> "object",  text |-> <<"{","}">> ],
    Reply }

\* The body of the response: text that is no JSON, or what response.json()
\* resolves to, with the value of its `output` property.
Bodies ==
  { [ type |-> ty, output |-> Undefined] : ty \in {"invalid", "null", "string", "array"} }
  \cup { [ type |-> "object", output |-> o ] : o \in OutputValues }

\* The calls of sendMessage: whether NEXT_PUBLIC_CHATBOT_API_URL is set,
\* whether fetch resolves, and the status and the body of the response.
ApiCalls ==
  [ apiUrl  : {"set", "unset"},
    fetch   : {"resolves", "rejects"},
    status  : {200, 201, 404, 500},
    body    : Bodies,
    settled : {"pending"},
    value   : {Undefined} ]

\* ToBoolean of a JavaScript value.
Truthy(v) ==
  CASE v.type \in {"undefined", "null"} -> FALSE
    [] v.type = "boolean" -> v.text = <<"true">>
    [] v.type = "number"  -> v.text # <<"0">>
    [] v.type = "string"  -> v.text # <<>>
    [] OTHER              -> TRUE

\* typeof data === 'object'
TypeofObject(ty) == ty \in {"null", "array", "object"}

\* Response.ok
ResponseOk(status) == status \in 200..299

\* Fault: sendMessage without the test of response.ok.
sendMessageIgnoresStatus(call) ==
  IF call.apiUrl = "unset"
    THEN [call EXCEPT !.settled = "threw"]
  ELSE IF call.fetch = "rejects"
    THEN [call EXCEPT !.settled = "threw"]
  ELSE IF call.body.type = "invalid"
    THEN [call EXCEPT !.settled = "threw"]
  ELSE IF /\ call.body.type # "null"
          /\ TypeofObject(call.body.type)
          /\ Truthy(call.body.output)
    THEN [call EXCEPT !.settled = "returned", !.value = call.body.output]
  ELSE [call EXCEPT !.settled = "threw"]

\* sendMessage: how the call settles and the value it returns.
sendMessage(call) ==
  IF call.apiUrl = "unset"
    THEN [call EXCEPT !.settled = "threw"]     \* 'Chatbot API URL not configured'
  ELSE IF call.fetch = "rejects"
    THEN [call EXCEPT !.settled = "threw"]     \* caught, logged, thrown again
  ELSE IF ~ResponseOk(call.status)
    THEN [call EXCEPT !.settled = "threw"]     \* 'HTTP error! status: ...'
  ELSE IF call.body.type = "invalid"
    THEN [call EXCEPT !.settled = "threw"]     \* response.json() rejects
  \* data && typeof data === 'object' && data.output
  ELSE IF /\ call.body.type # "null"
          /\ TypeofObject(call.body.type)
          /\ Truthy(call.body.output)
    THEN [call EXCEPT !.settled = "returned", !.value = call.body.output]
  ELSE [call EXCEPT !.settled = "threw"]       \* 'Invalid response format'

\* The call of sendMessage settles.
SendMessageSettles ==
  /\ api.settled = "pending"
  /\ api' = sendMessage(api)
  /\ UNCHANGED ExceptApi
  /\ UNCHANGED vars

ApiInit == Mounted /\ api \in ApiCalls /\ FirstVisit

ApiNext == SendMessageSettles

\* One call of sendMessage, for every configuration and response.
ApiSpec == ApiInit /\ [][ApiNext]_<< vars, observers >>

(* ----------------------------- session store --------------------------- *)

UserMessage == [ text |-> Typed,  isUser |-> TRUE,  call |-> TypedCall ]
AiMessage   == [ text |-> "text", isUser |-> FALSE, call |-> TypedCall ]

\* The message lists given to saveSession.
StoredLists == { <<>>, << UserMessage >>, << UserMessage, AiMessage >> }

\* The observers the session store leaves alone.
ExceptStorage == << messages, isLoading, monitor, console, api, interface,
                    manual >>

\* A call of saveSession.
Save(id, msgs) ==
  /\ \E r \in {saveSession(localStorage, cookie, now, id, msgs)} :
        /\ localStorage' = r.localStorage
        /\ cookie' = r.cookie
  /\ UNCHANGED << now, loaded >>
  /\ UNCHANGED ExceptStorage
  /\ UNCHANGED vars

\* A call of loadSession, with an id or without one.
Load(id) ==
  /\ \E r \in {loadSession(localStorage, cookie, now, id)} :
        /\ localStorage' = r.localStorage
        /\ cookie' = r.cookie
        /\ loaded' = [ sessionId |-> id, session |-> r.session ]
  /\ UNCHANGED now
  /\ UNCHANGED ExceptStorage
  /\ UNCHANGED vars

\* A call of clearSession, with an id or without one.
Clear(id) ==
  /\ \E r \in {clearSession(localStorage, cookie, id)} :
        /\ localStorage' = r.localStorage
        /\ cookie' = r.cookie
  /\ UNCHANGED << now, loaded >>
  /\ UNCHANGED ExceptStorage
  /\ UNCHANGED vars

\* Something else of the origin overwrites the text of a session: the
\* store is shared, and it is the only source of a text that is no JSON.
Overwrite(id, text) ==
  /\ localStorage[id] # text
  /\ localStorage' = [localStorage EXCEPT ![id] = text]
  /\ UNCHANGED << cookie, now, loaded >>
  /\ UNCHANGED ExceptStorage
  /\ UNCHANGED vars

\* Days pass.
Advance(day) ==
  /\ day > now
  /\ now' = day
  /\ UNCHANGED << localStorage, cookie, loaded >>
  /\ UNCHANGED ExceptStorage
  /\ UNCHANGED vars

StorageNext ==
  \/ \E id \in SessionIds, msgs \in StoredLists : Save(id, msgs)
  \/ \E id \in SessionIds \cup {NoSession} : Load(id)
  \/ \E id \in SessionIds \cup {NoSession} : Clear(id)
  \/ \E id \in SessionIds, text \in {EmptyText, Garbage} : Overwrite(id, text)
  \/ \E day \in Days : Advance(day)

\* The functions of the session store, called in any order on any session.
StorageSpec == Init /\ [][StorageNext]_<< vars, observers >>

(* ---------------------- chat interface, manual input ------------------ *)

\* What the user types into the message box: a message, and blanks only.
TypedTexts == { Typed, << " " >> }

\* The state the handlers of the manual input and of the chat interface
\* read and write.
Chat ==
  [ view          |-> View,
    engine        |-> engine,
    console       |-> console,
    message       |-> message,
    selectedFiles |-> selectedFiles,
    messages      |-> messages,
    isLoading     |-> isLoading,
    error         |-> error,
    sessionId     |-> sessionId,
    localStorage  |-> localStorage,
    cookie        |-> cookie ]

\* fullMessage: the text and, after it, the list of the attached files.
FullMessage(messageText, files) ==
  IF Len(files) > 0
    THEN IF messageText # <<>>
           THEN messageText \o << "\n" >> \o files
           ELSE files
    ELSE messageText

\* handleSendMessage up to its await.
handleSendMessage(c, messageText, files) ==
  IF c.sessionId = NoSession
    THEN [c EXCEPT !.error = SessionNotInitialized]
    ELSE [c EXCEPT
            !.messages  = handleAddMessage(c.messages, FullMessage(messageText, files),
                                           TRUE, TypedCall),
            !.isLoading = TRUE,
            !.error     = NoError]

\* handleSendMessage from its await on: sendMessage has settled.
afterSendMessage(c, out) ==
  LET c1 == IF out \in Replies
              THEN [c EXCEPT !.messages =
                      handleAddMessage(c.messages, out, FALSE, TypedCall)]
              ELSE [c EXCEPT !.error = FailedToSend]
  IN  [c1 EXCEPT !.isLoading = FALSE]

\* How many ids generateUUID has made for handleNewChat.
Generated(id) == IF id = FirstSessionId \/ id = NoSession THEN 0 ELSE id[2]

\* handleNewChat at time `clock`.
handleNewChat(c, clock) ==
  LET newSessionId == generateUUID(Generated(c.sessionId) + 1)
      saved == saveSession(c.localStorage, c.cookie, clock, newSessionId, <<>>)
  IN  [c EXCEPT !.sessionId = newSessionId,
                !.messages  = <<>>,
                !.error     = NoError,
                !.localStorage = saved.localStorage,
                !.cookie    = saved.cookie]

\* handleSubmit
handleSubmit(c) ==
  IF (Trim(c.message) # <<>> \/ Len(c.selectedFiles) > 0)
       /\ ~c.isLoading /\ ~c.view.live
    THEN LET c1 == handleSendMessage(c, Trim(c.message), c.selectedFiles)
         IN  [c1 EXCEPT !.message = <<>>,
                        !.selectedFiles = <<>>,
                        !.view = stopListening(resetTranscript(c.view)),
                        !.engine = IF c.view.listening THEN "off" ELSE c.engine]
    ELSE c

\* handleKeyPress of the Enter key without Shift.
handleKeyPress(c) == IF ~c.view.live THEN handleSubmit(c) ELSE c

\* Fault: handleVoiceToggle without its test of isLiveChatMode.
handleVoiceToggleInLiveChat(c) ==
  IF c.view.listening
    THEN [c EXCEPT !.view = stopListening(c.view), !.engine = "off"]
    ELSE LET started == startListening(c.view.listening, c.engine)
         IN  [c EXCEPT !.engine = started.engine,
                       !.console = IF started.logged
                                     THEN c.console \cup {FailedToStart}
                                     ELSE c.console]

\* handleVoiceToggle (speech recognition supported).
handleVoiceToggle(c) ==
  IF c.view.live
    THEN c
    ELSE IF c.view.listening
      THEN [c EXCEPT !.view = stopListening(c.view), !.engine = "off"]
      ELSE LET started == startListening(c.view.listening, c.engine)
           IN  [c EXCEPT !.engine = started.engine,
                         !.console = IF started.logged
                                       THEN c.console \cup {FailedToStart}
                                       ELSE c.console]

\* handleFileSelect
handleFileSelect(c, files) ==
  IF c.view.live THEN c ELSE [c EXCEPT !.selectedFiles = @ \o files]

\* handleImageSelect
handleImageSelect(c, files) ==
  IF c.view.live THEN c ELSE [c EXCEPT !.selectedFiles = @ \o files]

\* The effect of ChatInput on [transcript]: the render n after the render
\* o copies a transcript that has changed into the message box.
TranscriptEffect(o, n, text) ==
  IF n.transcript # o.transcript
       /\ n.transcript # <<>> /\ ~n.live /\ ~n.proc
    THEN n.transcript
    ELSE text

\* The effect of the chat interface on [messages, sessionId]: the session
\* is saved when it has messages.
SaveEffect(o, n, clock) ==
  IF (n.messages # o.messages \/ n.sessionId # o.sessionId)
       /\ n.sessionId # NoSession /\ Len(n.messages) > 0
    THEN saveSession(n.localStorage, n.cookie, clock, n.sessionId, n.messages)
    ELSE [ localStorage |-> n.localStorage, cookie |-> n.cookie ]

\* The observers the chat leaves alone.
ExceptChat == << monitor, api, now, loaded >>

\* The next state is what a handler has made of Chat, then the effects.
CommitChat(c) ==
  /\ Commit(Render(View, c.view), turn)
  /\ engine' = c.engine
  /\ console' = c.console
  /\ message' = TranscriptEffect(View, c.view, c.message)
  /\ selectedFiles' = c.selectedFiles
  /\ messages' = c.messages
  /\ isLoading' = c.isLoading
  /\ error' = c.error
  /\ sessionId' = c.sessionId
  /\ \E saved \in {SaveEffect(Chat, c, now)} :
        /\ localStorage' = saved.localStorage
        /\ cookie' = saved.cookie
  /\ UNCHANGED ExceptChat

\* The user types: the message box is there while live-chat mode is off
\* and is disabled while a typed message is loading.
Typing(text) ==
  /\ ~isLiveChatMode /\ ~isLoading
  /\ message # text
  /\ CommitChat([Chat EXCEPT !.message = text])

\* The log takes one more typed message.
MayType == Cardinality({i \in 1..Len(messages) : messages[i].isUser}) < MaxTyped

\* The send button, enabled when there is something to send.
SubmitClick ==
  /\ MayType
  /\ ~isLiveChatMode /\ ~isLoading
  /\ Trim(message) # <<>> \/ Len(selectedFiles) > 0
  /\ CommitChat(handleSubmit(Chat))

\* The Enter key in the message box.
EnterKey ==
  /\ MayType
  /\ ~isLiveChatMode /\ ~isLoading
  /\ CommitChat(handleKeyPress(Chat))

\* The microphone button.
VoiceClick ==
  /\ ~isLiveChatMode /\ ~isLoading
  /\ CommitChat(handleVoiceToggle(Chat))

\* The live-chat button: the enter branch empties the message box and the
\* attachments.
ChatToggle ==
  /\ handleLiveChatToggle
  /\ message' = IF isLiveChatMode THEN message ELSE <<>>
  /\ selectedFiles' = IF isLiveChatMode THEN selectedFiles ELSE <<>>
  /\ console' = IF ~isLiveChatMode /\ startListening(isListening, engine).logged
                  THEN console \cup {FailedToStart}
                  ELSE console
  /\ UNCHANGED << messages, isLoading, interface, localStorage, cookie >>
  /\ UNCHANGED ExceptChat

\* The recognizer's 'result' event, with the message box.
ChatResult(ev) ==
  /\ EngineResult(ev)
  /\ message' = TranscriptEffect(View, onResult(View, ev), message)
  /\ UNCHANGED << selectedFiles, console, messages, isLoading, interface,
                  localStorage, cookie >>
  /\ UNCHANGED ExceptChat

\* sendMessage settles for handleSendMessage.
ChatSettled(out) ==
  /\ isLoading
  /\ CommitChat(afterSendMessage(Chat, out))

\* The New Chat button of the header; the live-chat screen covers it.
NewChat ==
  /\ ~isLiveChatMode
  /\ Generated(sessionId) < MaxChats
  /\ CommitChat(handleNewChat(Chat, now))

ChatNext ==
  \/ \E text \in TypedTexts : Typing(text)
  \/ SubmitClick
  \/ EnterKey
  \/ VoiceClick
  \/ ChatToggle
  \/ EngineStart /\ Unobserved
  \/ \E ev \in ResultEvents : ChatResult(ev)
  \/ EngineEnd /\ Unobserved
  \/ \E out \in {"text", "fail"} : ChatSettled(out)
  \/ NewChat

\* The typed chat: the message box filled by hand or by dictation, the
\* microphone and live-chat buttons, the chat interface and its session.
ChatSpec == Init /\ [][ChatNext]_<< vars, observers >>

\* Every fetch, timer and play() promise of a turn settles: an enabled
\* continuation of a turn is eventually run.
LiveSpec == Init /\ [][LiveNext]_vars /\ \A t \in Turns : WF_vars(TurnStep(t))

(* ------------------------------ claims --------------------------------- *)

Active(t)   == turn[t].pc \notin {"none", "done", "threw"}
Playing     == {a \in AudioIds : audio[a] = "playing"}
\* A result event has changed the transcript in this step.
TranscriptUpdate == transcript' # transcript /\ transcript' # <<>>

\* C1 (debounce restart): every transcript update restarts the debounce
\* clock (the pending timer, if any, is a new one of age 0); a turn starts
\* only from a timer that has run the whole debounce delay since it was
\* armed, and its text, which is the chatInput of the request it issues,
\* is the trimmed transcript of the last update.
DebounceRestart ==
  [][ /\ TranscriptUpdate =>
           \/ debounce' = NoTimer
           \/ debounce'[1].age = 0 /\ debounce'[1].snapshot = transcript'
      /\ \A t \in Turns :
           /\ (turn[t].pc = "none" /\ turn'[t].pc # "none") =>
                /\ debounce # NoTimer
                /\ debounce[1].age >= DebounceTicks
                /\ turn'[t].text = Trim(transcript)
           /\ (turn[t].chatInput = NoText /\ turn'[t].chatInput # NoText) =>
                turn'[t].chatInput = turn'[t].text
    ]_vars

\* C1 witness: a final "Hey" and then an interim "why" were recognized and
\* the request in flight carries "why", the trimmed text of the last update.
DebounceRestartWitness ==
  /\ finalTranscript = Hey \o <<" ">>
  /\ transcript = <<" ">> \o Why
  /\ \E t \in Turns : turn[t].pc = "backend" /\ turn[t].chatInput = Why

\* C2 (noise floor): every chatInput given to sendMessage, and the text of
\* every turn, has a trimmed length of at least 3.
NoiseFloor ==
  \A t \in Turns :
    /\ turn[t].chatInput # NoText => Len(Trim(turn[t].chatInput)) >= 3
    /\ Active(t) => Len(Trim(turn[t].text)) >= 3

\* C2 witness: the timer has fired on " hi" and has discarded it: the
\* transcript is still " hi", nothing holds a timer off, none is pending
\* and no call of handleLiveChatMessage was made.
NoiseFloorWitness ==
  /\ isLiveChatMode /\ ~isProcessingVoice /\ ~isPlayingResponse
  /\ transcript = <<" ">> \o Hi
  /\ debounce = NoTimer
  /\ \A t \in Turns : turn[t].pc = "none"

\* C3 (one utterance in flight): at most one sendMessage of the live-chat
\* path is unresolved at any time.
SingleInFlight ==
  Cardinality({t \in Turns : turn[t].pc = "backend"}) <= 1

\* C4 (single response audio): at most one element started by speakText
\* is playing at any time.
SingleResponseAudio == Cardinality(Playing) <= 1

\* C5 (barge-in): a transcript update while the reply audio is playing, in
\* live-chat mode with the recognizer listening, stops that audio in the
\* same step and leaves the transcript empty and both flags false.
BargeInStopsReply ==
  [][ \A a \in AudioIds :
        ( /\ a[2] = "reply" /\ audio[a] = "playing"
          /\ isLiveChatMode /\ isListening
          /\ TranscriptUpdate )
        => /\ audio'[a] # "playing"
           /\ transcript' = <<>>
           /\ ~isProcessingVoice' /\ ~isPlayingResponse'
    ]_vars

\* C6 (exit silences): while live-chat mode is off no element started by
\* speakText is playing.
SilentWhenOff == ~isLiveChatMode => Playing = {}

\* IDLE, with nothing left of the turn machinery.
Idle ==
  /\ ~isLiveChatMode /\ ~isListening
  /\ ~isProcessingVoice /\ ~isPlayingResponse
  /\ debounce = NoTimer
  /\ thinkingLoop = "off"
  /\ currentAudio = NoAudio /\ thinkingAudio = NoAudio

NoStuckTurn ==
  \A t \in Turns :
    Active(t) ~> (turn[t].pc = "done" /\ ~isProcessingVoice /\ ~isPlayingResponse)

\* C8 witness: a turn has ended with both flags false while the other
\* turn is still suspended.
NoStuckTurnWitness ==
  /\ ~isProcessingVoice /\ ~isPlayingResponse
  /\ \E t, u \in Turns : turn[t].pc = "done" /\ Active(u)

\* C9 (backend failure recovery): when sendMessage fails the apology is
\* given to speakText and no filler loop is left; when that speakText has
\* settled the call has returned, not thrown, and both flags are false.
BackendFailureRecovery ==
  [][ \A t \in Turns :
        /\ BackendDone(t, "fail") =>
             /\ turn'[t].pc = "apologyTTS"
             /\ thinkingLoop' = "off" /\ thinkingAudio' = NoAudio
        /\ ( /\ turn[t].pc \in {"apologyTTS", "apologyPlay"}
             /\ turn'[t].pc \notin {"apologyTTS", "apologyPlay"} )
           => /\ turn'[t].pc = "done"
              /\ ~isProcessingVoice' /\ ~isPlayingResponse'
    ]_vars

\* C9 witness: the apology of a turn is playing and the turn has returned.
BackendFailureRecoveryWitness ==
  \E t \in Turns : audio[<<t, "apology">>] = "playing" /\ turn[t].pc = "done"

\* C10 (synthesis failure recovery): when the synthesis of the reply fails
\* the apology is given to speakText.
SynthesisFailureRecovery ==
  [][ \A t \in Turns :
        (turn[t].pc = "replyTTS" /\ SynthDone(t, FALSE)) => turn'[t].pc = "apologyTTS"
    ]_vars

\* THINKING: from the call of handleLiveChatMessage to the backend's answer.
Thinking(t) == turn[t].pc \in {"ackTTS", "ackPlay", "backend"}

\* C11 (filler loop bounded by state): when no turn is THINKING no filler
\* phrase is being requested, scheduled or played: the filler loop is off
\* and the filler slot is empty.
FillerBoundedByState ==
  (\A t \in Turns : ~Thinking(t)) =>
    /\ thinkingLoop = "off"
    /\ thinkingAudio = NoAudio

\* C11 witness: a turn for a question that is no simple greeting, for which
\* startContinuousThinking was called, has left THINKING with its reply.
FillerBoundedByStateWitness ==
  /\ \A t \in Turns : ~Thinking(t)
  /\ \E t \in Turns :
       /\ turn[t].pc = "delay"
       /\ turn[t].reply = "text"
       /\ ~isSimpleGreeting(turn[t].text)

\* C12 (filler loop starts for a long question): while the request of a
\* turn whose text is no simple greeting is pending, the filler loop is
\* running.
FillerLoopStarts ==
  \A t \in Turns :
    (turn[t].pc = "backend" /\ ~isSimpleGreeting(turn[t].text)) =>
      thinkingLoop # "off"

\* The timer callback runs on a transcript whose trimmed text is txt.
FiresOn(txt) ==
  /\ DebounceFire
  /\ Trim(debounce[1].snapshot) = txt

\* A call of handleLiveChatMessage starts in this step, with greeting
\* handling: its request is issued at once with chatInput txt, and no
\* acknowledgment phrase and no filler loop is started.
GreetingTurnStarts(txt) ==
  \E t \in Turns :
    /\ turn[t].pc = "none"
    /\ turn'[t].pc = "backend"
    /\ turn'[t].chatInput = txt
    /\ \A u \in Turns \ {t} : turn'[u] = turn[u]
    /\ audio'[<<t, "ack">>] = "none"
    /\ thinkingLoop' = "off"

SpeakingWhileReplyPlays ==
  \A t \in Turns : audio[<<t, "reply">>] = "playing" => isPlayingResponse

\* The text of s without its blanks.
StripSpaces(s) == SelectSeq(s, LAMBDA ch : ch # " ")

\* The characters of s other than the blank.
Chars(s) == {s[i] : i \in 1..Len(s)} \ {" "}

\* C15 (transcript composition): after a result event the transcript is,
\* blanks aside, the text finalized since the last reset followed by the
\* event's interim text.
TranscriptComposition ==
  [][ \A ev \in ResultEvents :
        EngineResult(ev) =>
          StripSpaces(transcript') = StripSpaces(finalTranscript') \o ev.interim
    ]_vars

\* A step that calls resetTranscript: the exit branch of the live-chat
\* button and the return of a call of handleLiveChatMessage.
ResetStep ==
  \/ handleLiveChatToggle /\ isLiveChatMode
  \/ \E t \in Turns : turn[t].pc # "done" /\ turn'[t].pc = "done"

ErrorClassification ==
  [][ \A code \in ErrorCodes :
        EngineError(code) =>
          IF code = "aborted"
            THEN ~isListening'
            ELSE isListening' = isListening /\ transcript' = transcript
    ]_vars

\* C17 witness: the recognizer has stopped on an error other than
\* "aborted" or has ended: isListening is still true and the transcript
\* is kept.
ErrorClassificationWitness ==
  /\ engine = "off"
  /\ isLiveChatMode /\ isListening
  /\ transcript = <<" ">> \o Why

\* C18 (no orphaned debounce timer): no timer is pending when live-chat
\* mode is off, and the timer callback runs only in live-chat mode.
DebounceCancelledByExit ==
  [][ /\ ~isLiveChatMode' => debounce' = NoTimer
      /\ DebounceFire => isLiveChatMode
    ]_vars

\* C18 witness: in live-chat mode a timer has run its delay and is about
\* to fire: the timer that an exit has to cancel.
DebounceCancelledByExitWitness ==
  /\ isLiveChatMode
  /\ debounce # NoTimer
  /\ debounce[1].age >= DebounceTicks

\* C19 (a turn in flight at exit is a no-op): while live-chat mode is off
\* a continuation of a turn changes neither flag, nor the transcript, nor
\* an audio slot.
ExitedTurnIsNoOp ==
  [][ \A t \in Turns :
        (TurnStep(t) /\ ~isLiveChatMode) =>
          UNCHANGED << isProcessingVoice, isPlayingResponse, transcript,
                       currentAudio, thinkingAudio >>
    ]_vars

\* C20 (mode-exit stops the capture): while live-chat mode is off the
\* recognizer is not running and isListening is false.
ExitStopsCapture ==
  ~isLiveChatMode => (engine # "on" /\ ~isListening)

\* C22 (one debounce timer): at most one timer is pending, and it is the
\* one of the last render: its snapshot is the transcript of now and the
\* flags allow it; a timer that a transcript update or a flag change has
\* superseded is gone, so it cannot fire.
OneDebounceTimer ==
  /\ Len(debounce) <= 1
  /\ debounce # NoTimer =>
       /\ debounce[1].snapshot = transcript
       /\ isLiveChatMode /\ ~isProcessingVoice /\ ~isPlayingResponse

\* C22 witness: a timer was pending for the final "Hey" and the interim
\* "why" that followed has replaced it by a new timer of age 0.
OneDebounceTimerWitness ==
  /\ finalTranscript = Hey \o <<" ">>
  /\ transcript = <<" ">> \o Why
  /\ debounce # NoTimer
  /\ debounce[1].age = 0
  /\ \A t \in Turns : turn[t].pc = "none"

\* C23 (no new utterance while a turn is unresolved): no debounce timer
\* is pending while a backend request or a reply synthesis is in flight.
NoTimerWhileUnresolved ==
  (\E t \in Turns : turn[t].pc \in {"backend", "replyTTS"}) => debounce = NoTimer

\* C25 (transcript cleared when the request is issued): the step in which
\* a turn issues its backend request leaves the transcript empty.
TranscriptClearedAtRequest ==
  [][ \A t \in Turns :
        (turn[t].pc # "backend" /\ turn'[t].pc = "backend") => transcript' = <<>>
    ]_vars

\* C26 (a discarded utterance resets the transcript): when the timer fires
\* on a snapshot whose trimmed length is 2 or less, the transcript is
\* empty afterwards.
ShortUtteranceResets ==
  [][ ( /\ DebounceFire
        /\ ~passesNoiseFloor(Trim(debounce[1].snapshot)) )
      => transcript' = <<>>
    ]_vars

\* C27 (filler iterations are sequential): at most one chain of
\* playRandomThinkingSound runs, so at most one filler is requested or
\* playing and at most one reschedule timer is pending, and the filler
\* slot holds no element beside it.
FillerSequential ==
  /\ thinkingLoop \in {"off", "fetching"}
  /\ thinkingLoop = "off" => thinkingAudio = NoAudio

\* C27 witness: two overlapping turns have both spoken their
\* acknowledgment and called startContinuousThinking, and both wait for
\* the backend.
FillerSequentialWitness ==
  \A t \in Turns :
    /\ turn[t].pc = "backend"
    /\ ~isSimpleGreeting(turn[t].text)

\* C29 (empty text is not spoken): when the reply has no text left after
\* filterUrlsFromText, speakText returns at once: no synthesis request is
\* issued, no element is made, started or stopped, neither audio slot
\* changes, and the call returns with both flags false.
EmptyTextRejected ==
  [][ \A t \in Turns :
        (DelayDone(t) /\ turn[t].reply = "urlonly") =>
          /\ turn'[t].pc = "done"
          /\ \A u \in Turns : u # t => turn'[u] = turn[u]
          /\ currentAudio' = currentAudio
          /\ thinkingAudio' = thinkingAudio
          /\ \A a \in AudioIds :
               (audio[a] \in {"loading", "playing"} \/ audio'[a] \in {"loading", "playing"})
                 => audio'[a] = audio[a]
          /\ ~isProcessingVoice' /\ ~isPlayingResponse'
    ]_vars

\* C29 witness: a call whose reply, as the log has it, was made of
\* URL-like tokens only has returned; both flags are false and no element
\* was made for the reply.
EmptyTextRejectedWitness ==
  \E t \in Turns :
    /\ turn[t].pc = "done"
    /\ \E i \in LogOf(t) : ~messages[i].isUser /\ messages[i].text = "urlonly"
    /\ audio[<< t, "reply" >>] = "none"
    /\ ~isProcessingVoice /\ ~isPlayingResponse

\* C24 (conversation log per turn): the step in which turn t receives its
\* reply appends the utterance and then the reply, next to each other at
\* the end of the log; the step in which its request fails leaves the log
\* alone; no other step adds or removes a message of turn t, so each is
\* there once; and both are there when the synthesis of the reply is
\* requested.
ConversationLog ==
  [][ \A t \in Turns :
        /\ (turn[t].pc = "backend" /\ turn'[t].pc = "delay") =>
              messages' = messages \o
                << [ text |-> turn[t].text,   isUser |-> TRUE,  call |-> t ],
                   [ text |-> turn'[t].reply, isUser |-> FALSE, call |-> t ] >>
        /\ (turn[t].pc = "backend" /\ turn'[t].pc \notin {"backend", "delay"}) =>
              messages' = messages
        /\ LogOf(t)' # LogOf(t) =>
              (turn[t].pc = "backend" /\ turn'[t].pc = "delay" /\ LogOf(t) = {})
        /\ (turn[t].pc # "replyTTS" /\ turn'[t].pc = "replyTTS") =>
              \E i \in 1..(Len(messages) - 1) :
                /\ LogOf(t) = {i, i + 1}
                /\ messages[i].isUser /\ ~messages[i + 1].isUser
    ]_<< vars, observers >>

\* C24 witness: live-chat mode was left with the request of turn 1 pending
\* and a message was typed; turn 1 has logged its utterance and its reply
\* and waits for the synthesis of the reply; the reply to the typed message
\* came after that; live-chat mode was entered again;
\* the request of turn 2 has failed and has logged nothing.
ConversationLogWitness ==
  /\ Len(messages) = 4
  /\ messages[1].call = TypedCall /\ messages[4].call = TypedCall
  /\ LogOf(1) = {2, 3}
  /\ turn[1].pc = "replyTTS"
  /\ turn[2].pc = "apologyTTS"

\* C21 (voice-level monitor teardown): while live-chat mode is off no
\* sampling loop of the monitor has a frame requested, no context it has
\* made is open and no microphone stream it has opened is live.
MonitorTornDown ==
  ~isLiveChatMode =>
    /\ monitor.loops = 0
    /\ monitor.contexts = 0
    /\ monitor.streams = 0

\* C30 (sendMessage): a call that has settled has returned a value exactly
\* when the API URL is set, fetch has resolved, the status is one of 200 to
\* 299 and the body is a JSON object whose output is none of undefined,
\* null, false, 0 and the empty string; the value returned is that output;
\* in every other case the call has thrown and has returned nothing.
SendMessageContract ==
  api.settled \in {"returned", "threw"} =>
    LET usable == /\ api.body.type = "object"
                  /\ api.body.output.type \notin {"undefined", "null"}
                  /\ api.body.output.text \notin {<<>>, <<"0">>, <<"false">>}
        success == /\ api.apiUrl = "set"
                   /\ api.fetch = "resolves"
                   /\ api.status >= 200 /\ api.status < 300
                   /\ usable
    IN  /\ api.settled = "returned" <=> success
        /\ api.settled = "returned" => api.value = api.body.output
        /\ api.settled = "threw" => api.value = Undefined

\* C30 witness: a response of status 201 whose body is an object with the
\* output "ok" has made the call return "ok".
SendMessageContractWitness ==
  /\ api.settled = "returned"
  /\ api.status = 201
  /\ api.value = Reply

\* C28 (recognition keeps going): whenever the recognizer has stopped
\* while live-chat mode is on, it is running or starting again later, or
\* live-chat mode has been left.
RecognitionKeepsGoing ==
  (isLiveChatMode /\ engine = "off") ~> (~isLiveChatMode \/ engine # "off")

\* C31 (startListening never throws): the call that enters live-chat mode
\* gets startListening back without an exception; with isListening true
\* the engine is left alone; with an engine that rejects start the engine
\* is left alone, isListening stays false and the transcript is kept.
StartListeningNeverThrows ==
  [][ (~isLiveChatMode /\ isLiveChatMode') =>
        /\ startListening(isListening, engine).outcome = "returned"
        /\ isListening => engine' = engine
        /\ (~isListening /\ engine # "off") =>
              /\ engine' = engine
              /\ ~isListening'
              /\ transcript' = transcript
    ]_vars

\* C31 witness: live-chat mode was left before the recognizer's 'start'
\* event and entered again: start was called on the engine that was
\* starting already and the failure was logged; isListening is false and
\* the engine is as it was.
StartListeningNeverThrowsWitness ==
  /\ isLiveChatMode /\ ~isListening
  /\ engine = "starting"
  /\ FailedToStart \in console

\* C32 (the transcript survives the recognizer's start and end): a 'start'
\* or an 'end' event changes neither the transcript nor the finalized
\* text; and a transcript that has text becomes empty only in a step that
\* calls resetTranscript: a call of handleLiveChatMessage returns, the
\* live-chat button leaves the mode, or the barge-in effect runs (which
\* leaves the mode on, the recognizer listening, both flags false and the
\* response slot empty).
TranscriptSurvivesEngine ==
  [][ /\ (EngineStart \/ EngineEnd) =>
            (transcript' = transcript /\ finalTranscript' = finalTranscript)
      /\ (transcript # <<>> /\ transcript' = <<>>) =>
            \/ \E t \in Turns : turn[t].pc # "done" /\ turn'[t].pc = "done"
            \/ isLiveChatMode /\ ~isLiveChatMode'
            \/ /\ isLiveChatMode' /\ isListening'
               /\ ~isProcessingVoice' /\ ~isPlayingResponse'
               /\ currentAudio' = NoAudio
    ]_vars

\* C33 (the response slot follows the playing audio): after every step an
\* element that is playing is the one currentAudio refers to; and the
\* 'ended' or 'error' callback of an element that the slot does not refer
\* to leaves the slot alone.
SlotHoldsPlayingAudio ==
  [][ /\ \A a \in AudioIds : audio'[a] = "playing" => currentAudio' = a
      /\ \A a \in AudioIds :
           ((AudioEnded(a) \/ AudioError(a)) /\ currentAudio # a) =>
             currentAudio' = currentAudio
    ]_vars

\* C34 (greeting classification): the step in which a call issues its
\* backend request tells how its utterance was classified.  A simple
\* greeting issues it at once, from the timer callback, without an
\* acknowledgment element and without a filler loop; any other utterance
\* issues it after the acknowledgment phrase, with the filler loop running.
GreetingClassification ==
  [][ \A t \in Turns :
        (turn[t].pc # "backend" /\ turn'[t].pc = "backend") =>
          IF isSimpleGreeting(turn'[t].text)
            THEN /\ turn[t].pc = "none"
                 /\ audio'[<< t, "ack" >>] = "none"
                 /\ thinkingLoop' = thinkingLoop
            ELSE /\ turn[t].pc \in {"ackTTS", "ackPlay"}
                 /\ thinkingLoop' # "off"
    ]_vars

\* C35 (barge-in needs speech): the step that marks the reply as playing,
\* in which no transcript update arrives, leaves isPlayingResponse true and
\* changes neither isProcessingVoice nor the transcript.
BargeInNeedsSpeech ==
  [][ \A t \in Turns :
        (DelayDone(t) /\ turn[t].reply = "text") =>
          /\ isPlayingResponse'
          /\ isProcessingVoice' = isProcessingVoice
          /\ transcript' = transcript
    ]_vars

\* The contract of the session store, for the stored texts `unparsable`:
\* loadSession(id) right after saveSession(id, messages) returns those
\* messages; loadSession(id) of a saved session that is at most
\* EXPIRY_DAYS old returns its messages and changes nothing; of an older
\* one, or of a text in `unparsable`, it returns null and removes the entry
\* of id, and no other entry and not the cookie.
RoundTrip(unparsable) ==
  \A id \in SessionIds :
    /\ \A msgs \in StoredLists :
          Save(id, msgs) =>
            \E r \in {loadSession(localStorage', cookie', now', id)} :
              /\ ~r.session.null
              /\ r.session.messages = msgs
              /\ r.localStorage = localStorage'
    /\ Load(id) =>
          \E e \in {localStorage[id]} :
            /\ (e.kind = "json" /\ now - e.lastActivity <= EXPIRY_DAYS) =>
                  /\ ~loaded'.session.null
                  /\ loaded'.session.messages = e.messages
                  /\ localStorage' = localStorage
                  /\ cookie' = cookie
            /\ (\/ e.kind = "json" /\ now - e.lastActivity > EXPIRY_DAYS
                \/ e.kind \in unparsable) =>
                  /\ loaded'.session.null
                  /\ localStorage'[id] = Absent
                  /\ \A other \in SessionIds \ {id} :
                        localStorage'[other] = localStorage[other]
                  /\ cookie' = cookie

\* C38 (session store round trip), as stated: a stored text that cannot be
\* parsed is the empty text or a text that is no JSON.
SessionRoundTripAnyText ==
  [][RoundTrip({"empty", "garbage"})]_<< vars, observers >>

\* C38 (session store round trip), amended: loadSession(id) after
\* saveSession(id, messages) returns those messages while lastActivity is
\* at most 30 days old; when it is older, or when the stored text is not
\* empty and cannot be parsed, loadSession returns null and removes the
\* entry of id and nothing else; an empty stored text is taken for a
\* missing one: loadSession returns null and leaves it where it is.
SessionRoundTrip ==
  [][ /\ RoundTrip({"garbage"})
      /\ \A id \in SessionIds :
            (Load(id) /\ localStorage[id] = EmptyText) =>
              /\ loaded'.session.null
              /\ localStorage' = localStorage
              /\ cookie' = cookie
    ]_<< vars, observers >>

\* C38 witness: a session of two messages was saved and loaded on its
\* 30th day, while the other session, saved as well, was found expired or
\* unparsable and removed.
SessionRoundTripWitness ==
  /\ ~loaded.session.null
  /\ Len(loaded.session.messages) = 2
  /\ now - loaded.session.lastActivity = EXPIRY_DAYS
  /\ \E id \in SessionIds \ {loaded.sessionId} :
        /\ cookie = id
        /\ localStorage[id] = Absent

\* C37 (one session id): a backend request of live-chat mode carries the
\* session id of the chat interface, the one its typed requests carry.
OneSessionId ==
  \A t \in Turns : turn[t].pc = "backend" => ChatInputSessionId = sessionId

\* C36 (live-chat mode gates the manual input): in live-chat mode each of
\* handleSubmit, handleKeyPress, handleVoiceToggle, handleFileSelect and
\* handleImageSelect leaves the state as it is, and a step that changes the
\* transcript leaves the message box as it is.
LiveChatGatesManualInput ==
  [][ /\ isLiveChatMode =>
            /\ handleSubmit(Chat) = Chat
            /\ handleKeyPress(Chat) = Chat
            /\ handleVoiceToggle(Chat) = Chat
            /\ \A file \in {"file", "image"} :
                  /\ handleFileSelect(Chat, << file >>) = Chat
                  /\ handleImageSelect(Chat, << file >>) = Chat
      /\ ((isLiveChatMode \/ isLiveChatMode') /\ transcript' # transcript) =>
            message' = message
    ]_<< vars, observers >>

\* C36 witness: a dictated message was sent and answered; then live-chat
\* mode was entered, and the recognizer has heard something that is in the
\* transcript and not in the message box.
LiveChatGatesManualInputWitness ==
  /\ isLiveChatMode /\ isListening
  /\ transcript # <<>>
  /\ message = <<>>
  /\ Len(messages) = 2
  /\ messages[1].isUser /\ messages[1].text = Why

\* C39 (typed-message send): the step that starts a request appends the
\* user message; the step in which the request settles ends with isLoading
\* false; after a reply it appends one assistant message, after the user
\* message; after a failure it appends nothing, the user message is in the
\* list and the error text is set.
TypedSendContract ==
  [][ /\ (~isLoading /\ isLoading') =>
            /\ Len(messages') = Len(messages) + 1
            /\ messages'[Len(messages')].isUser
            /\ \A i \in 1..Len(messages) : messages'[i].call = messages[i].call
      /\ (isLoading /\ ~isLoading') =>
            /\ \E i \in 1..Len(messages) : messages[i].isUser
            /\ \/ /\ Len(messages') = Len(messages) + 1
                   /\ ~messages'[Len(messages')].isUser
                   /\ \E i \in 1..Len(messages) : messages'[i].isUser
                \/ /\ Len(messages') = Len(messages)
                   /\ error' = FailedToSend
    ]_<< vars, observers >>

====
